---- MODULE Spec2Model ----
(***************************************************************************)
(* Model of crates/ra_lsp_server/src/project_model.rs: the CargoWorkspace  *)
(* arena, TargetKind::new, find_cargo_toml, from_cargo_metadata and the    *)
(* workspace_loader worker.                                                *)
(*                                                                         *)
(* Strings whose characters matter (target kind strings) are sequences of  *)
(* one-character strings.  Paths are sequences of components; the empty    *)
(* sequence is the filesystem root "/".                                    *)
(***************************************************************************)
EXTENDS Integers, Sequences, FiniteSets, TLC

VARIABLES
    kinds, kindOut,                          \* TargetKind::new: argument, result
    files, locStart, locCurr, locPc, locOut, \* find_cargo_toml: filesystem, argument, loop state, result
    meta, ws, lookup,                        \* cargo response, CargoWorkspace built from it, last target_by_root call
    broken, inQ, senderOpen, wpc, cur, res,  \* loader: failing manifests, request channel, worker position
    outQ, outOpen, submitted, delivered, eos

kvars == <<kinds, kindOut>>
lvars == <<locStart, locCurr, locPc, locOut>>
tvars == <<meta, ws, lookup>>
wvars == <<broken, inQ, senderOpen, wpc, cur, res, outQ, outOpen, submitted, delivered, eos>>
vars == <<kvars, files, lvars, tvars, wvars>>

\* Option<T>: None is the empty sequence, Some(x) the one-element sequence
None == <<>>
Some(x) == <<x>>

(***************************************************************************)
(* Bounds of the model.                                                    *)
(***************************************************************************)
MaxKinds == 2        \* length of a target's kind list
MaxDepth == 3        \* depth of a directory below the filesystem root
MaxManifests == 2    \* number of Cargo.toml files on the filesystem
MaxPkgs == 2         \* packages in one cargo metadata response
MaxTgts == 3         \* targets in one cargo metadata response, all packages together
MaxReqs == 3         \* requests submitted to one loader

(***************************************************************************)
(* TargetKind::new                                                         *)
(***************************************************************************)
S_bin == <<"b","i","n">>
S_test == <<"t","e","s","t">>
S_bench == <<"b","e","n","c","h">>
S_example == <<"e","x","a","m","p","l","e">>
S_lib == <<"l","i","b">>
S_rlib == <<"r","l","i","b">>
S_dylib == <<"d","y","l","i","b">>
S_proc_macro == <<"p","r","o","c","-","m","a","c","r","o">>
S_custom_build == <<"c","u","s","t","o","m","-","b","u","i","l","d">>
S_binary == <<"b","i","n","a","r","y">>
S_Lib == <<"L","i","b">>
S_li == <<"l","i">>
S_empty == <<>>

KindStrings ==
    {S_bin, S_test, S_bench, S_example, S_lib, S_rlib, S_dylib, S_proc_macro,
     S_custom_build, S_binary, S_Lib, S_li, S_empty}

\* str::starts_with
StartsWith(s, pat) == Len(pat) <= Len(s) /\ SubSeq(s, 1, Len(pat)) = pat

\* str::contains: try the pattern at each position, left to right
RECURSIVE StrContains(_, _)
StrContains(s, pat) ==
    IF StartsWith(s, pat) THEN TRUE
    ELSE IF s = <<>> THEN FALSE
    ELSE StrContains(Tail(s), pat)

\* the guard of the fifth match arm: kind.contains("lib")
IsLibKind_Exact(kind) == kind = S_lib
IsLibKind(kind) == StrContains(kind, S_lib)

\* one evaluation of the match; "continue" is the last arm
MatchKind(kind) ==
    IF kind = S_bin THEN "Bin"
    ELSE IF kind = S_test THEN "Test"
    ELSE IF kind = S_bench THEN "Bench"
    ELSE IF kind = S_example THEN "Example"
    ELSE IF IsLibKind(kind) THEN "Lib"
    ELSE "continue"

RECURSIVE TargetKindNew_LastWins(_)
TargetKindNew_LastWins(ks) ==
    IF ks = <<>> THEN "Other"
    ELSE LET rest == TargetKindNew_LastWins(Tail(ks))
         IN  IF rest # "Other" \/ MatchKind(Head(ks)) = "continue" THEN rest
             ELSE MatchKind(Head(ks))

\* for kind in kinds { return match ... { ..., _ => continue } }  TargetKind::Other
RECURSIVE TargetKindNew(_)
TargetKindNew(ks) ==
    IF ks = <<>> THEN "Other"
    ELSE IF MatchKind(Head(ks)) = "continue" THEN TargetKindNew(Tail(ks))
    ELSE MatchKind(Head(ks))

RECURSIVE SeqsUpTo(_, _)
SeqsUpTo(S, n) ==
    IF n = 0 THEN {<<>>}
    ELSE LET shorter == SeqsUpTo(S, n - 1)
         IN  shorter \cup {Append(s, x) : s \in shorter, x \in S}

KindInit ==
    /\ kinds \in SeqsUpTo(KindStrings, MaxKinds)
    /\ kindOut = None

KindIdle == kinds = <<>> /\ kindOut = None

\* a call TargetKind::new(kinds)
KindCall ==
    /\ kindOut = None
    /\ kindOut' = Some(TargetKindNew(kinds))
    /\ UNCHANGED kinds

(***************************************************************************)
(* find_cargo_toml                                                         *)
(***************************************************************************)
CargoToml == "Cargo.toml"
Comp == {"a", "b"}

Dirs == SeqsUpTo(Comp, MaxDepth)

Root == <<>>

\* Path::parent: None for the root
Parent(p) == IF p = Root THEN None ELSE Some(SubSeq(p, 1, Len(p) - 1))

\* Path::join with a single component
Join(p, c) == Append(p, c)

\* Path::ends_with with a single component
EndsWith(p, c) == p # Root /\ p[Len(p)] = c

\* Path::exists on the modelled filesystem
Exists(fs, p) == p \in fs

Ok(v) == [tag |-> "Ok", val |-> v]
Err(v) == [tag |-> "Err", val |-> v]

\* bail!("can't find Cargo.toml at {}", path.display()): after the loop, path is the argument
NotFound(path) == Err(<<"can't find Cargo.toml at", path>>)

\* curr = path.parent()
Ascend_Skip(p) == IF Parent(p) = None THEN None ELSE Parent(Parent(p)[1])
Ascend(p) == Parent(p)

\* the loop of find_cargo_toml(path), entered with curr = c
RECURSIVE FindLoop(_, _, _)
FindLoop(fs, path, c) ==
    IF c = None THEN NotFound(path)
    ELSE IF Exists(fs, Join(c[1], CargoToml)) THEN Ok(Join(c[1], CargoToml))
    ELSE FindLoop(fs, path, Ascend(c[1]))

FindCargoToml(fs, path) ==
    IF EndsWith(path, CargoToml) THEN Ok(path)
    ELSE FindLoop(fs, path, Some(path))

RECURSIVE SubsetsUpTo(_, _)
SubsetsUpTo(S, n) ==
    IF n = 0 THEN {{}}
    ELSE LET smaller == SubsetsUpTo(S, n - 1)
         IN  smaller \cup {s \cup {x} : s \in smaller, x \in S}

StartPaths == Dirs \cup {Join(d, CargoToml) : d \in {p \in Dirs : Len(p) < MaxDepth}}

LocInit ==
    /\ files \in SubsetsUpTo({Join(d, CargoToml) : d \in Dirs}, MaxManifests)
    /\ locStart = None /\ locCurr = None /\ locPc = "idle" /\ locOut = None

LocIdle == locStart = None /\ locCurr = None /\ locPc = "idle" /\ locOut = None

\* entry of find_cargo_toml(path): the early return, or curr = Some(path)
LocCall(path) ==
    /\ locPc = "idle"
    /\ locStart' = Some(path)
    /\ IF EndsWith(path, CargoToml)
       THEN locPc' = "done" /\ locOut' = Some(Ok(path)) /\ locCurr' = None
       ELSE locPc' = "loop" /\ locOut' = None /\ locCurr' = Some(path)
    /\ UNCHANGED files

\* one evaluation of the while-let condition and, when it holds, of the loop body
LocIter ==
    /\ locPc = "loop"
    /\ IF locCurr = None
       THEN locPc' = "done" /\ locOut' = Some(NotFound(locStart[1])) /\ locCurr' = None
       ELSE IF Exists(files, Join(locCurr[1], CargoToml))
       THEN locPc' = "done" /\ locOut' = Some(Ok(Join(locCurr[1], CargoToml))) /\ locCurr' = None
       ELSE locPc' = "loop" /\ locOut' = None /\ locCurr' = Ascend(locCurr[1])
    /\ UNCHANGED <<files, locStart>>

(***************************************************************************)
(* CargoWorkspace: the translation of a cargo metadata response and the    *)
(* accessors.  Package and Target are usize indices, counted from 0.       *)
(***************************************************************************)
Ids == {"i1", "i2"}
PkgChoices ==
    {[id |-> "i1", name |-> "n1"], [id |-> "i2", name |-> "n1"], [id |-> "i2", name |-> "n2"]}
R1 == <<"a", "src", "lib.rs">>
R2 == <<"a", "src", "main.rs">>
R3 == <<"a", "build.rs">>
TgtChoices ==
    {[name |-> "t1", src_path |-> R1, kind |-> <<S_rlib, S_lib>>],
     [name |-> "t2", src_path |-> R2, kind |-> <<S_bin>>]}
MemberLists == {<<>>, <<"i1">>, <<"i2">>, <<"i2", "i1">>}

ManifestOf(id) == <<id, CargoToml>>

RawPkg(c, tgts) ==
    [id |-> c.id, name |-> c.name, manifest_path |-> ManifestOf(c.id), targets |-> tgts]

\* the package lists of at most n packages holding at most t targets together
RECURSIVE PkgLists(_, _)
PkgLists(n, t) ==
    IF n = 0 THEN {<<>>}
    ELSE {<<>>} \cup
         UNION {{<<RawPkg(c, tgts)>> \o rest : rest \in PkgLists(n - 1, t - Len(tgts))} :
                   c \in PkgChoices, tgts \in SeqsUpTo(TgtChoices, t)}

Metas ==
    {[workspace_members |-> m, packages |-> ps] :
        m \in MemberLists, ps \in PkgLists(MaxPkgs, MaxTgts)}

Range(f) == {f[i] : i \in DOMAIN f}

\* let pkg = Package(packages.len())
NewPackage(packages) == Len(packages)

\* let tgt = Target(targets.len()), taken before the push
NewTarget_AfterPush(targets) == Len(targets) + 1
NewTarget(targets) == Len(targets)

\* let is_member = ws_members.contains(&meta_pkg.id)
IsMember_ByName(ws_members, meta_pkg) == meta_pkg.name \in ws_members
IsMember(ws_members, meta_pkg) == meta_pkg.id \in ws_members

\* the inner loop: for meta_tgt in meta_pkg.targets
RECURSIVE PushTargets(_, _, _, _)
PushTargets(targets, pkg_targets, pkg, meta_tgts) ==
    IF meta_tgts = <<>> THEN [targets |-> targets, pkg_targets |-> pkg_targets]
    ELSE LET meta_tgt == Head(meta_tgts)
             tgt == NewTarget(targets)
             data == [pkg |-> pkg, name |-> meta_tgt.name, root |-> meta_tgt.src_path,
                      kind |-> TargetKindNew(meta_tgt.kind)]
         IN  PushTargets(Append(targets, data), Append(pkg_targets, tgt), pkg, Tail(meta_tgts))

\* the outer loop: for meta_pkg in meta.packages (pkg_by_id is written there and never
\* read, so it is left out)
RECURSIVE PushPackages(_, _, _, _)
PushPackages(packages, targets, ws_members, meta_pkgs) ==
    IF meta_pkgs = <<>> THEN [packages |-> packages, targets |-> targets]
    ELSE LET meta_pkg == Head(meta_pkgs)
             pkg == NewPackage(packages)
             inner == PushTargets(targets, <<>>, pkg, meta_pkg.targets)
             pkg_data == [name |-> meta_pkg.name, manifest |-> meta_pkg.manifest_path,
                          targets |-> inner.pkg_targets,
                          is_member |-> IsMember(ws_members, meta_pkg)]
         IN  PushPackages(Append(packages, pkg_data), inner.targets, ws_members, Tail(meta_pkgs))

\* from_cargo_metadata after metadata_run has answered with m
Translate(m) == PushPackages(<<>>, <<>>, Range(m.workspace_members), m.packages)

\* CargoWorkspace::pkg, CargoWorkspace::tgt: Vec indexing
Pkg(w, pkg) == w.packages[pkg + 1]
Tgt(w, tgt) == w.targets[tgt + 1]

\* CargoWorkspace::packages
Packages(w) == [i \in 1..Len(w.packages) |-> i - 1]

PackageTargets(w, pkg) == Pkg(w, pkg).targets
PackageIsMember(w, pkg) == Pkg(w, pkg).is_member
PackageName(w, pkg) == Pkg(w, pkg).name
TargetPackage(w, tgt) == Tgt(w, tgt).pkg
TargetRoot(w, tgt) == Tgt(w, tgt).root
TargetKind(w, tgt) == Tgt(w, tgt).kind

\* pkg.targets(self).find(|it| it.root(self) == root)
RECURSIVE FindByRoot_Last(_, _, _)
FindByRoot_Last(w, tgts, root) ==
    IF tgts = <<>> THEN None
    ELSE IF TargetRoot(w, tgts[Len(tgts)]) = root THEN Some(tgts[Len(tgts)])
    ELSE FindByRoot_Last(w, SubSeq(tgts, 1, Len(tgts) - 1), root)

RECURSIVE FindByRoot(_, _, _)
FindByRoot(w, tgts, root) ==
    IF tgts = <<>> THEN None
    ELSE IF TargetRoot(w, Head(tgts)) = root THEN Some(Head(tgts))
    ELSE FindByRoot(w, Tail(tgts), root)

\* self.packages().filter_map(...).next()
RECURSIVE FirstHit(_, _, _)
FirstHit(w, pkgs, root) ==
    IF pkgs = <<>> THEN None
    ELSE LET hit == FindByRoot(w, PackageTargets(w, Head(pkgs)), root)
         IN  IF hit # None THEN hit ELSE FirstHit(w, Tail(pkgs), root)

TargetByRoot(w, root) == FirstHit(w, Packages(w), root)

Roots == {R1, R2, R3}

TransInit == meta \in Metas /\ ws = None /\ lookup = None

TransIdle == meta = None /\ ws = None /\ lookup = None

\* the translation of the response held in meta
TransBuild ==
    /\ ws = None
    /\ ws' = Some(Translate(meta))
    /\ UNCHANGED <<meta, lookup>>

\* a call ws.target_by_root(root)
TransLookup(root) ==
    /\ ws # None
    /\ lookup' = Some([root |-> root, result |-> TargetByRoot(ws[1], root)])
    /\ UNCHANGED <<meta, ws>>

(***************************************************************************)
(* from_cargo_metadata as a whole.  metadata_run is the external tool: it  *)
(* fails for the manifests in brk and for a manifest that does not exist,  *)
(* and otherwise answers with the response MetaFor(manifest).              *)
(***************************************************************************)
MetaFor(manifest) ==
    [workspace_members |-> <<manifest[1]>>,
     packages |-> <<[id |-> manifest[1], name |-> "n1", manifest_path |-> manifest,
                     targets |-> <<[name |-> "t1", src_path |-> R1, kind |-> <<S_lib>>]>>]>>]

MetadataRun(fs, brk, manifest) ==
    IF manifest \notin fs \/ manifest \in brk THEN Err(<<"exit status", manifest>>)
    ELSE Ok(MetaFor(manifest))

FromCargoMetadata(fs, brk, path) ==
    LET cargo_toml == FindCargoToml(fs, path)
    IN  IF cargo_toml.tag = "Err" THEN cargo_toml
        ELSE LET m == MetadataRun(fs, brk, cargo_toml.val)
             IN  IF m.tag = "Err" THEN Err(<<"cargo metadata failed", m.val>>)
                 ELSE Ok(Translate(m.val))

(***************************************************************************)
(* workspace_loader: one worker thread between a request channel of        *)
(* capacity Buf and a result channel.                                      *)
(***************************************************************************)
Buf == 1

LoaderFiles == {<<"a", CargoToml>>, <<"b", CargoToml>>}
ReqPaths == {<<"a", "x">>, <<"b">>, <<"c", "y">>}

\* the results that have left the worker, oldest first
Emitted == delivered \o outQ

\* the closure given to for_each: output_sender.send(it)
SendOut_Front(q, it) == <<it>> \o q
SendOut_DropErr(q, it) == IF it.tag = "Err" THEN q ELSE Append(q, it)
SendOut(q, it) == Append(q, it)

\* where the worker goes after a send: back to the iterator
AfterSend_StopOnErr(it) == IF it.tag = "Err" THEN "done" ELSE "recv"
AfterSend(it) == "recv"

WInit ==
    /\ files = LoaderFiles
    /\ broken \in SUBSET LoaderFiles
    /\ inQ = <<>> /\ senderOpen = TRUE
    /\ wpc = "recv" /\ cur = None /\ res = None
    /\ outQ = <<>> /\ outOpen = TRUE
    /\ submitted = <<>> /\ delivered = <<>> /\ eos = FALSE

WIdle ==
    /\ broken = {}
    /\ inQ = <<>> /\ senderOpen = FALSE
    /\ wpc = "done" /\ cur = None /\ res = None
    /\ outQ = <<>> /\ outOpen = FALSE
    /\ submitted = <<>> /\ delivered = <<>> /\ eos = FALSE

\* the caller sends a root path; a full request channel blocks it
Submit(path) ==
    /\ senderOpen
    /\ Len(inQ) < Buf
    /\ Len(submitted) < MaxReqs
    /\ inQ' = Append(inQ, path)
    /\ submitted' = Append(submitted, path)
    /\ UNCHANGED <<files, broken, senderOpen, wpc, cur, res, outQ, outOpen, delivered, eos>>

\* the caller stops the loader: the request sender is dropped
Stop ==
    /\ senderOpen
    /\ senderOpen' = FALSE
    /\ UNCHANGED <<files, broken, inQ, wpc, cur, res, outQ, outOpen, submitted, delivered, eos>>

\* the iterator over input_receiver yields the next path
WorkerRecv ==
    /\ wpc = "recv"
    /\ inQ # <<>>
    /\ cur' = Some(Head(inQ))
    /\ inQ' = Tail(inQ)
    /\ wpc' = "load"
    /\ UNCHANGED <<files, broken, senderOpen, res, outQ, outOpen, submitted, delivered, eos>>

\* .map(|path| CargoWorkspace::from_cargo_metadata(path.as_path()))
WorkerLoad ==
    /\ wpc = "load"
    /\ res' = Some(FromCargoMetadata(files, broken, cur[1]))
    /\ cur' = None
    /\ wpc' = "send"
    /\ UNCHANGED <<files, broken, inQ, senderOpen, outQ, outOpen, submitted, delivered, eos>>

\* .for_each(|it| output_sender.send(it))
WorkerSend ==
    /\ wpc = "send"
    /\ outQ' = SendOut(outQ, res[1])
    /\ wpc' = AfterSend(res[1])
    /\ res' = None
    /\ UNCHANGED <<files, broken, inQ, senderOpen, cur, outOpen, submitted, delivered, eos>>

\* the iterator ends, the closure returns and output_sender is dropped
WorkerExit_KeepsSender ==
    /\ wpc = "recv"
    /\ inQ = <<>> /\ ~senderOpen
    /\ wpc' = "done"
    /\ UNCHANGED <<files, broken, inQ, senderOpen, cur, res, outQ, outOpen, submitted, delivered, eos>>

WorkerExit ==
    /\ wpc = "recv"
    /\ inQ = <<>> /\ ~senderOpen
    /\ wpc' = "done"
    /\ outOpen' = FALSE
    /\ UNCHANGED <<files, broken, inQ, senderOpen, cur, res, outQ, submitted, delivered, eos>>

\* the caller receives the oldest result
Consume ==
    /\ outQ # <<>>
    /\ delivered' = Append(delivered, Head(outQ))
    /\ outQ' = Tail(outQ)
    /\ UNCHANGED <<files, broken, inQ, senderOpen, wpc, cur, res, outOpen, submitted, eos>>

\* the caller's receive on the empty, closed result channel reports the end
ObserveEos ==
    /\ outQ = <<>> /\ ~outOpen /\ ~eos
    /\ eos' = TRUE
    /\ UNCHANGED <<files, broken, inQ, senderOpen, wpc, cur, res, outQ, outOpen, submitted, delivered>>

(***************************************************************************)
(* Specifications.                                                         *)
(***************************************************************************)
Init == WInit /\ KindIdle /\ LocIdle /\ TransIdle

Next ==
    \/ \E path \in ReqPaths : Submit(path) /\ UNCHANGED <<kvars, lvars, tvars>>
    \/ Stop /\ UNCHANGED <<kvars, lvars, tvars>>
    \/ WorkerRecv /\ UNCHANGED <<kvars, lvars, tvars>>
    \/ WorkerLoad /\ UNCHANGED <<kvars, lvars, tvars>>
    \/ WorkerSend /\ UNCHANGED <<kvars, lvars, tvars>>
    \/ WorkerExit /\ UNCHANGED <<kvars, lvars, tvars>>
    \/ Consume /\ UNCHANGED <<kvars, lvars, tvars>>
    \/ ObserveEos /\ UNCHANGED <<kvars, lvars, tvars>>

Spec == Init /\ [][Next]_vars

\* the worker thread keeps running while it has a step to take
WorkerFair ==
    /\ WF_vars(WorkerRecv /\ UNCHANGED <<kvars, lvars, tvars>>)
    /\ WF_vars(WorkerLoad /\ UNCHANGED <<kvars, lvars, tvars>>)
    /\ WF_vars(WorkerSend /\ UNCHANGED <<kvars, lvars, tvars>>)
    /\ WF_vars(WorkerExit /\ UNCHANGED <<kvars, lvars, tvars>>)

LiveSpec == Init /\ [][Next]_vars /\ WorkerFair

KindSpecInit == KindInit /\ files = {} /\ LocIdle /\ TransIdle /\ WIdle
KindNext == KindCall /\ UNCHANGED <<files, lvars, tvars, wvars>>
SpecKind == KindSpecInit /\ [][KindNext]_vars

LocSpecInit == LocInit /\ KindIdle /\ TransIdle /\ WIdle
LocNext ==
    \/ \E path \in StartPaths : LocCall(path) /\ UNCHANGED <<kvars, tvars, wvars>>
    \/ LocIter /\ UNCHANGED <<kvars, tvars, wvars>>
SpecLocate == LocSpecInit /\ [][LocNext]_vars

TransSpecInit == TransInit /\ files = {} /\ KindIdle /\ LocIdle /\ WIdle
TransNext ==
    \/ TransBuild /\ UNCHANGED <<kvars, files, lvars, wvars>>
    \/ \E root \in Roots : TransLookup(root) /\ UNCHANGED <<kvars, files, lvars, wvars>>
SpecTranslate == TransSpecInit /\ [][TransNext]_vars

(***************************************************************************)
(* Properties.  The definitions used only here restate the documented      *)
(* behaviour without using the operators that model the code.              *)
(***************************************************************************)
\* pat occurs in s at some offset
HasSubstr(s, pat) == \E i \in 0..(Len(s) - Len(pat)) : SubSeq(s, i + 1, i + Len(pat)) = pat

ExactKinds == {S_bin, S_test, S_bench, S_example}
Decides(s) == s \in ExactKinds \/ HasSubstr(s, S_lib)
KindOfString(s) ==
    CASE s = S_bin -> "Bin" [] s = S_test -> "Test" [] s = S_bench -> "Bench"
      [] s = S_example -> "Example" [] OTHER -> "Lib"
FirstDeciding(ks) == {i \in 1..Len(ks) : Decides(ks[i]) /\ \A j \in 1..(i - 1) : ~Decides(ks[j])}

\* C6: TargetKind::new returns the kind of the first string of the list that is one
\* of "bin", "test", "bench", "example" or contains "lib", skipping the strings that
\* are neither, and Other when there is no such string; the five documented lists
\* give Lib, Other, Bin, Other and Bin.
C6_KindClassification ==
    kindOut # None =>
        /\ \A i \in FirstDeciding(kinds) : kindOut[1] = KindOfString(kinds[i])
        /\ FirstDeciding(kinds) = {} => kindOut[1] = "Other"
        /\ kinds = <<S_rlib, S_lib>> => kindOut[1] = "Lib"
        /\ kinds = <<S_custom_build>> => kindOut[1] = "Other"
        /\ kinds = <<S_bin>> => kindOut[1] = "Bin"
        /\ kinds = <<>> => kindOut[1] = "Other"
        /\ kinds = <<S_custom_build, S_bin>> => kindOut[1] = "Bin"

C6_Witness == kinds = <<S_custom_build, S_bin>> /\ kindOut = Some("Bin")

\* C7 as stated: each of "rlib", "dylib" and "proc-macro" contains "lib", and a kind
\* list made of just one of them is classified Lib.
C7_AllThreeAreLib ==
    (kindOut # None /\ kinds \in {<<S_rlib>>, <<S_dylib>>, <<S_proc_macro>>}) =>
        HasSubstr(kinds[1], S_lib) /\ kindOut[1] = "Lib"

\* C7 as amended: "rlib" and "dylib" contain "lib" and a kind list made of just one
\* of them is classified Lib; "proc-macro" does not contain "lib" and the kind list
\* ["proc-macro"] is classified Other.
C7_LibVariants ==
    kindOut # None =>
        /\ kinds \in {<<S_rlib>>, <<S_dylib>>} =>
               HasSubstr(kinds[1], S_lib) /\ kindOut[1] = "Lib"
        /\ kinds = <<S_proc_macro>> =>
               ~HasSubstr(kinds[1], S_lib) /\ kindOut[1] = "Other"

C7_Witness == kinds = <<S_dylib>> /\ kindOut = Some("Lib")

\* the directories start, parent(start), ..., root
Chain(p) == {SubSeq(p, 1, k) : k \in 0..Len(p)}
WithManifest(fs, p) == {d \in Chain(p) : Join(d, CargoToml) \in fs}
Nearest(fs, p) == CHOOSE d \in WithManifest(fs, p) : \A e \in WithManifest(fs, p) : Len(e) <= Len(d)

\* the iterations the loop of find_cargo_toml has left, at most
LocMeasure ==
    IF locPc # "loop" THEN 0
    ELSE IF locCurr = None THEN 1
    ELSE Len(locCurr[1]) + 2

LocResultRight ==
    (locPc = "done" /\ ~EndsWith(locStart[1], CargoToml)) =>
        IF WithManifest(files, locStart[1]) = {}
        THEN locOut[1].tag = "Err" /\ locOut[1].val = <<"can't find Cargo.toml at", locStart[1]>>
        ELSE locOut[1].tag = "Ok" /\ locOut[1].val = Join(Nearest(files, locStart[1]), CargoToml)

\* C8: for a start path that does not name a manifest, find_cargo_toml returns the
\* Cargo.toml of the nearest directory of the chain start, parent(start), ..., root
\* that has one, and fails with an error naming the start path when none has; every
\* step of the walk brings it closer to its end.
C8_ManifestLocator ==
    /\ []LocResultRight
    /\ [][locPc = "loop" => LocMeasure' < LocMeasure]_vars

C8_Witness ==
    /\ locStart = Some(<<"a", "b", "a">>)
    /\ files = {<<CargoToml>>}
    /\ locOut = Some(Ok(<<CargoToml>>))

\* C4: in a workspace built by the translation, every target handle in a package's
\* target list is an index into the targets arena and its package is the package it
\* was reached from; every package handle stored in a target is an index into the
\* packages arena.
C4_HandleValidity ==
    ws # None =>
        LET w == ws[1]
        IN  /\ \A i \in DOMAIN Packages(w) :
                 \A j \in DOMAIN PackageTargets(w, Packages(w)[i]) :
                    LET t == PackageTargets(w, Packages(w)[i])[j]
                    IN  /\ t \in 0..(Len(w.targets) - 1)
                        /\ TargetPackage(w, t) = Packages(w)[i]
            /\ \A k \in DOMAIN w.targets : w.targets[k].pkg \in 0..(Len(w.packages) - 1)

C4_Witness ==
    /\ ws # None
    /\ Len(ws[1].packages) = 2 /\ Len(ws[1].targets) = 2
    /\ \A i \in DOMAIN ws[1].packages : Len(ws[1].packages[i].targets) = 1

\* C5: the i-th translated package is a member exactly when the i-th raw package's
\* id is one of the response's workspace members, whatever the packages' names.
C5_MembershipById ==
    ws # None =>
        /\ Len(ws[1].packages) = Len(meta.packages)
        /\ \A i \in DOMAIN meta.packages :
              PackageIsMember(ws[1], i - 1) <=>
                  \E k \in DOMAIN meta.workspace_members :
                      meta.workspace_members[k] = meta.packages[i].id

C5_Witness ==
    /\ ws # None
    /\ Len(meta.packages) = 2
    /\ meta.packages[1].name = meta.packages[2].name
    /\ meta.packages[1].id # meta.packages[2].id
    /\ PackageIsMember(ws[1], 0) /\ ~PackageIsMember(ws[1], 1)

\* the places <<package, position>> of the targets whose root is root
Hits(w, root) ==
    {<<p, j>> \in (0..(Len(w.packages) - 1)) \X (1..Len(w.targets)) :
        /\ j <= Len(w.packages[p + 1].targets)
        /\ w.targets[w.packages[p + 1].targets[j] + 1].root = root}
Before(a, b) == a[1] < b[1] \/ (a[1] = b[1] /\ a[2] <= b[2])

LookupRight ==
    lookup # None =>
        LET w == ws[1]
            root == lookup[1].root
            r == lookup[1].result
        IN  IF Hits(w, root) = {} THEN r = None
            ELSE /\ r # None
                 /\ \E h \in Hits(w, root) :
                       /\ \A g \in Hits(w, root) : Before(h, g)
                       /\ r[1] = w.packages[h[1] + 1].targets[h[2]]
                 /\ TargetRoot(w, r[1]) = root

\* C9: target_by_root(root) is None when no package has a target with that root, and
\* otherwise the first such target in package-then-target order, whose root is the
\* queried path; a lookup leaves the workspace as it was.
C9_TargetByRoot ==
    /\ []LookupRight
    /\ [][ws # None => ws' = ws]_vars

C9_Witness ==
    /\ lookup # None
    /\ lookup[1].result # None
    /\ Cardinality(Hits(ws[1], lookup[1].root)) >= 2

\* the result the documentation gives the request for path: the workspace of the
\* nearest manifest when there is one and cargo answers for it, a failure otherwise
RequestValid(path) ==
    /\ WithManifest(files, path) # {}
    /\ Join(Nearest(files, path), CargoToml) \notin broken

SameResult(a, b) == a.tag = b.tag /\ a.val = b.val

\* C1: the i-th result that leaves the worker, and so the i-th result the caller
\* receives, is the result of loading the i-th submitted path.
C1_FifoDelivery ==
    /\ Len(Emitted) <= Len(submitted)
    /\ \A i \in 1..Len(Emitted) :
          i <= Len(submitted) /\
          SameResult(Emitted[i], FromCargoMetadata(files, broken, submitted[i]))

C1_Witness ==
    /\ Len(delivered) = 3
    /\ submitted[1] # submitted[2] /\ submitted[2] # submitted[3] /\ submitted[1] # submitted[3]

\* the accepted requests that have not produced their result yet
InFlight == Len(inQ) + (IF wpc \in {"load", "send"} THEN 1 ELSE 0)

\* C2: every accepted request is waiting in the channel, in the worker's hands, or
\* has produced exactly one result, so the results never outnumber the requests;
\* and the n-th request eventually produces the n-th result.
C2_OneResultPerRequest ==
    /\ [](Len(Emitted) + InFlight = Len(submitted))
    /\ \A n \in 1..MaxReqs : (Len(submitted) >= n) ~> (Len(Emitted) >= n)

C2_Witness ==
    /\ senderOpen
    /\ Len(submitted) >= 2
    /\ Len(Emitted) = Len(submitted)
    /\ \E i \in DOMAIN submitted : \E j \in DOMAIN submitted : i # j /\ submitted[i] = submitted[j]

\* C3: a request fails exactly when its own manifest is missing or cargo fails for
\* it, whatever happened to the requests before it; a valid request yields the
\* workspace of its manifest; the worker ends only when the loader was stopped.
C3_FailureIsolation ==
    /\ \A i \in 1..Len(Emitted) :
          /\ i <= Len(submitted)
          /\ Emitted[i].tag = "Ok" <=> RequestValid(submitted[i])
          /\ Emitted[i].tag = "Ok" =>
                 Emitted[i].val = Translate(MetaFor(Join(Nearest(files, submitted[i]), CargoToml)))
    /\ wpc = "done" => ~senderOpen /\ inQ = <<>>

C3_Witness ==
    /\ Len(Emitted) >= 3
    /\ Emitted[1].tag = "Err" /\ Emitted[1].val[1] = "can't find Cargo.toml at"
    /\ Emitted[2].tag = "Err" /\ Emitted[2].val[1] = "cargo metadata failed"
    /\ Emitted[3].tag = "Ok"
    /\ wpc = "recv" /\ senderOpen

\* C10: once the loader is stopped no request is accepted any more, the worker
\* eventually ends and the result channel is then closed; the caller sees the end
\* of the results only after the worker ended and every emitted result was
\* delivered, and nothing is delivered after it; results never outnumber the
\* accepted requests.
C10_Shutdown ==
    /\ [][~senderOpen => (~senderOpen' /\ submitted' = submitted)]_vars
    /\ ~senderOpen ~> (wpc = "done" /\ ~outOpen)
    /\ [](~outOpen => (wpc = "done" /\ ~senderOpen))
    /\ [](eos => (wpc = "done" /\ ~outOpen /\ outQ = <<>>))
    /\ [][eos => delivered' = delivered]_vars
    /\ [](Len(Emitted) <= Len(submitted))

C10_Witness == eos /\ Len(delivered) >= 2

====
